---- MODULE Spec2Model ----
(***************************************************************************)
(* Title-Number-Generator (src/script.js): a form of (house, title) sample *)
(* rows, an optional spreadsheet upload with type filters, and a submit    *)
(* handler that fits a least-squares line through the samples of the       *)
(* target's parity, drops one outlier when the fit is poor, and predicts   *)
(* the title number of the target house.                                   *)
(*                                                                         *)
(* JavaScript numbers are modelled as exact rationals <<n, d>> (d > 0,     *)
(* lowest terms).  Text inputs are <<>> (empty) or <<v>> (the integer v).  *)
(* Array indices reported by the code (outlier_index) stay 0-based.        *)
(***************************************************************************)
EXTENDS Integers, Sequences, FiniteSets, TLC

\* ------------------------------------------------------------------------
\* Bounds of the model
\* ------------------------------------------------------------------------
\* rows the form may hold (the code allows MAX_POINTS = 100)
MaxRows == 4
\* handler runs explored from the freshly loaded page
MaxEvents == 7
\* consecutive submit runs told apart
MaxStreak == 2
\* rows of a hand-filled form drawn from FormPairs
MaxForm == 3
\* rows of a hand-filled form drawn from MixedPairs or GridPairs
MaxGrid == 2
\* samples handed to findOutlierByResidual on its own
MaxPoints == 3

\* ------------------------------------------------------------------------
\* Program constants
\* ------------------------------------------------------------------------
MIN_POINTS == 2
CONFIDENCE_THRESHOLD == 90

\* ------------------------------------------------------------------------
\* Exact arithmetic standing for JavaScript numbers
\* ------------------------------------------------------------------------
Abs(i) == IF i < 0 THEN -i ELSE i

RECURSIVE GCD(_, _)
GCD(a, b) == IF b = 0 THEN a ELSE GCD(b, a % b)

LCM(a, b) == (a \div GCD(a, b)) * b

Reduced(n, d, g) == <<n \div g, d \div g>>

\* n / d in lowest terms with a positive denominator, d # 0
RNorm(n, d) ==
    IF d < 0 THEN Reduced(-n, -d, GCD(Abs(n), Abs(d)))
    ELSE Reduced(n, d, GCD(Abs(n), Abs(d)))

R(i) == <<i, 1>>

RAddOver(a, b, l) == RNorm(a[1] * (l \div a[2]) + b[1] * (l \div b[2]), l)

RAdd(a, b) == RAddOver(a, b, LCM(a[2], b[2]))

RNeg(a) == <<-a[1], a[2]>>

RSub(a, b) == RAdd(a, RNeg(b))

RMulOver(a, b, g1, g2) ==
    RNorm((a[1] \div g1) * (b[1] \div g2), (a[2] \div g2) * (b[2] \div g1))

RMul(a, b) == RMulOver(a, b, GCD(Abs(a[1]), b[2]), GCD(Abs(b[1]), a[2]))

\* a / b for b # 0
RDiv(a, b) == RMul(a, RNorm(b[2], b[1]))

RSq(a) == RMul(a, a)

RLt(a, b) == RSub(a, b)[1] < 0

RGe(a, b) == ~RLt(a, b)

RGt(a, b) == RLt(b, a)

RIsZero(a) == a[1] = 0

\* a % b of JavaScript on integers: the remainder takes the sign of a
JsMod(a, b) == IF a < 0 THEN -((-a) % b) ELSE a % b

\* faulty variant: ties rounded away from zero
MathRoundAwayFromZero(a) ==
    IF a[1] < 0 THEN -((2 * (-a[1]) + a[2]) \div (2 * a[2]))
    ELSE (2 * a[1] + a[2]) \div (2 * a[2])

\* Math.round: the integer nearest to a, ties towards +Infinity
MathRound(a) == (2 * a[1] + a[2]) \div (2 * a[2])

\* ------------------------------------------------------------------------
\* Array helpers
\* ------------------------------------------------------------------------
\* arr.reduce((a, b) => a + b) on a non-empty array
RECURSIVE ReduceSum(_)
ReduceSum(arr) ==
    IF Len(arr) = 1 THEN arr[1]
    ELSE RAdd(ReduceSum(SubSeq(arr, 1, Len(arr) - 1)), arr[Len(arr)])

\* the integers of the y column as numbers
ToNumbers(arr) == [i \in 1..Len(arr) |-> R(arr[i])]

\* faulty variant: the element after index k is dropped
FilterOutIndexOffByOne(arr, k) ==
    [i \in 1..(Len(arr) - (IF k + 1 >= 0 /\ k + 1 < Len(arr) THEN 1 ELSE 0)) |->
        IF i - 1 < k + 1 THEN arr[i] ELSE arr[i + 1]]

\* arr.filter((_, idx) => idx !== k), k 0-based
FilterOutIndex(arr, k) ==
    [i \in 1..(Len(arr) - (IF k >= 0 /\ k < Len(arr) THEN 1 ELSE 0)) |->
        IF i - 1 < k \/ k < 0 THEN arr[i] ELSE arr[i + 1]]

\* ------------------------------------------------------------------------
\* calculateRegression
\* ------------------------------------------------------------------------
Null == [ok |-> FALSE]

\* arr.reduce(...) / n
Mean(arr) == RDiv(ReduceSum(arr), R(Len(arr)))

\* the accumulation loop of m_numerator over i = 0 .. k-1
RECURSIVE SlopeNumerator(_, _, _, _, _)
SlopeNumerator(x_arr, y_arr, x_mean, y_mean, k) ==
    IF k = 0 THEN R(0)
    ELSE RAdd(SlopeNumerator(x_arr, y_arr, x_mean, y_mean, k - 1),
              RMul(RSub(x_arr[k], x_mean), RSub(y_arr[k], y_mean)))

\* the accumulation loop of m_denominator over i = 0 .. k-1
RECURSIVE SlopeDenominator(_, _, _)
SlopeDenominator(x_arr, x_mean, k) ==
    IF k = 0 THEN R(0)
    ELSE RAdd(SlopeDenominator(x_arr, x_mean, k - 1),
              RSq(RSub(x_arr[k], x_mean)))

\* the accumulation loop of ss_total
RECURSIVE SsTotal(_, _, _)
SsTotal(y_arr, y_mean, k) ==
    IF k = 0 THEN R(0)
    ELSE RAdd(SsTotal(y_arr, y_mean, k - 1), RSq(RSub(y_arr[k], y_mean)))

\* the accumulation loop of ss_residual, y_predicted = (m * x) + c
RECURSIVE SsResidual(_, _, _, _, _)
SsResidual(x_arr, y_arr, m, c, k) ==
    IF k = 0 THEN R(0)
    ELSE RAdd(SsResidual(x_arr, y_arr, m, c, k - 1),
              RSq(RSub(y_arr[k], RAdd(RMul(m, x_arr[k]), c))))

\* faulty variant: a zero total sum of squares always gives 0
RSquaredZeroTotal(ss_total, ss_residual) ==
    IF RIsZero(ss_total) THEN R(0)
    ELSE RSub(R(1), RDiv(ss_residual, ss_total))

\* faulty variant: the ratio itself, not its complement to 1
RSquaredAsRatio(ss_total, ss_residual) ==
    IF RIsZero(ss_total)
    THEN (IF RIsZero(ss_residual) THEN R(1) ELSE R(0))
    ELSE RDiv(ss_residual, ss_total)

\* r2 from the two sums of squares
RSquared(ss_total, ss_residual) ==
    IF RIsZero(ss_total)
    THEN (IF RIsZero(ss_residual) THEN R(1) ELSE R(0))
    ELSE RSub(R(1), RDiv(ss_residual, ss_total))

\* faulty variant: x_mean left out
InterceptWithoutMean(y_mean, m, x_mean) == RSub(y_mean, m)

\* c = y_mean - (m * x_mean)
Intercept(y_mean, m, x_mean) == RSub(y_mean, RMul(m, x_mean))

\* the second loop and the returned object, from m and c
RegressionOfLine(x_arr, y_arr, y_mean, m, c) ==
    [ok |-> TRUE, m |-> m, c |-> c,
     r2 |-> RSquared(SsTotal(y_arr, y_mean, Len(y_arr)),
                     SsResidual(x_arr, y_arr, m, c, Len(y_arr)))]

RegressionOfSlope(x_arr, y_arr, x_mean, y_mean, m) ==
    RegressionOfLine(x_arr, y_arr, y_mean, m, Intercept(y_mean, m, x_mean))

\* faulty variant: the exit tests the numerator
RegressionOfSumsNumeratorTest(x_arr, y_arr, x_mean, y_mean, m_numerator, m_denominator) ==
    IF RIsZero(m_numerator) THEN Null
    ELSE RegressionOfSlope(x_arr, y_arr, x_mean, y_mean,
                           RDiv(m_numerator, m_denominator))

\* the zero-denominator exit and the slope
RegressionOfSums(x_arr, y_arr, x_mean, y_mean, m_numerator, m_denominator) ==
    IF RIsZero(m_denominator) THEN Null
    ELSE RegressionOfSlope(x_arr, y_arr, x_mean, y_mean,
                           RDiv(m_numerator, m_denominator))

\* the first loop, from the two means
RegressionOfMeans(x_arr, y_arr, x_mean, y_mean) ==
    RegressionOfSums(x_arr, y_arr, x_mean, y_mean,
                     SlopeNumerator(x_arr, y_arr, x_mean, y_mean, Len(x_arr)),
                     SlopeDenominator(x_arr, x_mean, Len(x_arr)))

calculateRegression(x_arr, y_arr) ==
    IF Len(x_arr) < 2 THEN Null
    ELSE RegressionOfMeans(x_arr, y_arr, Mean(x_arr), Mean(y_arr))

\* ------------------------------------------------------------------------
\* findOutlierByResidual
\* ------------------------------------------------------------------------
\* (y_i - ((m * n_i) + c)) ** 2
ResidualSq(n_i, y_i, m, c) == RSq(RSub(y_i, RAdd(RMul(m, n_i), c)))

\* faulty variant: an equal residual moves the maximum too
ExceedsOrEquals(residual_sq, max_residual_sq) == RGe(residual_sq, max_residual_sq)

\* the comparison that moves the maximum
Exceeds(residual_sq, max_residual_sq) == RGt(residual_sq, max_residual_sq)

\* one pass of the loop body at index i (0-based)
OutlierStep(acc, i, residual_sq) ==
    IF Exceeds(residual_sq, acc.max_residual_sq)
    THEN [max_residual_sq |-> residual_sq, outlier_index |-> i]
    ELSE acc

\* the loop over i = 0 .. k-1, carrying max_residual_sq and outlier_index
RECURSIVE OutlierLoop(_, _, _, _, _)
OutlierLoop(x_prime_values, y_values, m, c, k) ==
    IF k = 0 THEN [max_residual_sq |-> R(-1), outlier_index |-> -1]
    ELSE OutlierStep(OutlierLoop(x_prime_values, y_values, m, c, k - 1), k - 1,
                     ResidualSq(x_prime_values[k], y_values[k], m, c))

\* the returned object, x_values non-empty
OutlierAt(x_values, outlier_index) ==
    [outlier_house |-> x_values[outlier_index + 1],
     outlier_index |-> outlier_index]

findOutlierByResidual(x_prime_values, y_values, x_values, m, c) ==
    OutlierAt(x_values,
              OutlierLoop(x_prime_values, y_values, m, c, Len(x_values)).outlier_index)

\* ------------------------------------------------------------------------
\* The submit handler as a function of what it reads
\* ------------------------------------------------------------------------
Blank == <<>>

\* faulty variant: the even transform whatever the target's parity
TransformHalvingOnly(x, targetParity) == RDiv(R(x), R(2))

\* transform_fn chosen by the target's parity
transform_fn(x, targetParity) ==
    IF targetParity = 0
    THEN RDiv(R(x), R(2))
    ELSE RDiv(RAdd(R(x), R(1)), R(2))

transform_name(targetParity) ==
    IF targetParity = 0 THEN "(HouseNo / 2)" ELSE "(HouseNo + 1) / 2"

ParityType(targetParity) == IF targetParity = 0 THEN "even" ELSE "odd"

\* the label list shown as the active filter
ActiveFilterDisplay(cb) ==
    IF cb.exists /\ ~cb.all /\ cb.checked # {}
    THEN cb.checked
    ELSE {"N/A (Manual Mode)"}

\* the test of the forEach over the .input-group rows: visible, both inputs
\* non-empty, house number of the target's remainder
RowPasses(row, targetParity) ==
    /\ ~row.hidden
    /\ row.house # Blank
    /\ row.title # Blank
    /\ JsMod(row.house[1], 2) = targetParity

FilteredRows(rs, targetParity) ==
    SelectSeq(rs, LAMBDA row : RowPasses(row, targetParity))

NoOutlier == [outlier_house |-> 0, outlier_index |-> -1]

NoMessage == [kind |-> "none", excluded |-> <<>>, before |-> R(0), after |-> R(0)]

\* the handler's locals before it has run
NoLocals ==
    [stage |-> "none", parityType |-> "none",
     activeFilterDisplay |-> {}, filtered_x |-> <<>>, filtered_y |-> <<>>,
     x_prime_values |-> <<>>, main_regression |-> Null,
     r2_percent_initial |-> R(0), outlier_info |-> NoOutlier,
     corrected_x_prime |-> <<>>, corrected_y |-> <<>>,
     corrected_regression |-> Null, final_regression |-> Null,
     final_r2_percent |-> R(0), analysis_level |-> "none",
     analysis_message |-> NoMessage,
     n_target |-> R(0), y_target |-> R(0), finalResult |-> 0]

\* r2 * 100
Percent(r2) == RMul(r2, R(100))

\* the corrected fit becomes the final one
AdoptCorrected(l, percent) ==
    [l EXCEPT !.final_regression = l.corrected_regression,
              !.final_r2_percent = percent,
              !.analysis_level = "info",
              !.analysis_message =
                  [kind |-> "ignored_outlier",
                   excluded |-> <<l.outlier_info.outlier_house>>,
                   before |-> l.r2_percent_initial,
                   after |-> percent]]

\* faulty variant: a re-fit that stayed poor is adopted all the same
KeepCorrected(l) ==
    [l EXCEPT !.final_regression =
                  IF l.corrected_regression.ok THEN l.corrected_regression
                  ELSE l.final_regression,
              !.analysis_level = "warning",
              !.analysis_message = [NoMessage EXCEPT !.kind = "inconsistent"]]

\* the original fit stays the final one
KeepOriginal(l) ==
    [l EXCEPT !.analysis_level = "warning",
              !.analysis_message = [NoMessage EXCEPT !.kind = "inconsistent"]]

\* the test on corrected_regression
Improved(corrected_regression) ==
    /\ corrected_regression.ok
    /\ RGe(Percent(corrected_regression.r2), R(CONFIDENCE_THRESHOLD))

AfterRefit(l) ==
    IF Improved(l.corrected_regression)
    THEN AdoptCorrected(l, Percent(l.corrected_regression.r2))
    ELSE KeepOriginal(l)

Refit(l) ==
    AfterRefit([l EXCEPT !.corrected_regression =
                   calculateRegression(l.corrected_x_prime, ToNumbers(l.corrected_y))])

\* faulty variant: the title array loses the entry after the outlier's
RemoveOutlierMispaired(l, outlier_info) ==
    Refit([l EXCEPT !.outlier_info = outlier_info,
                    !.corrected_x_prime =
                        FilterOutIndex(l.x_prime_values, outlier_info.outlier_index),
                    !.corrected_y =
                        FilterOutIndex(l.filtered_y,
                            (outlier_info.outlier_index + 1) % Len(l.filtered_y))])

RemoveOutlier(l, outlier_info) ==
    Refit([l EXCEPT !.outlier_info = outlier_info,
                    !.corrected_x_prime =
                        FilterOutIndex(l.x_prime_values, outlier_info.outlier_index),
                    !.corrected_y =
                        FilterOutIndex(l.filtered_y, outlier_info.outlier_index)])

\* faulty variant: more than 3 samples required
OutlierEligibleAboveThree(r2_percent_initial, n) ==
    RLt(r2_percent_initial, R(CONFIDENCE_THRESHOLD)) /\ n > 3

\* the test that starts the outlier auto-correction
OutlierEligible(r2_percent_initial, n) ==
    RLt(r2_percent_initial, R(CONFIDENCE_THRESHOLD)) /\ n >= 3

\* section F: the outlier auto-correction, from the initial fit
OutlierCorrection(l) ==
    IF OutlierEligible(l.r2_percent_initial, Len(l.filtered_x))
    THEN RemoveOutlier(l, findOutlierByResidual(l.x_prime_values,
                              ToNumbers(l.filtered_y), l.filtered_x,
                              l.main_regression.m, l.main_regression.c))
    ELSE IF RLt(l.r2_percent_initial, R(CONFIDENCE_THRESHOLD))
    THEN [l EXCEPT !.analysis_level = "warning",
                   !.analysis_message = [NoMessage EXCEPT !.kind = "more_data_needed"]]
    ELSE l

\* section G: n_target, y_target and finalResult
Predicted(l, n_target, y_target) ==
    [l EXCEPT !.n_target = n_target, !.y_target = y_target,
              !.finalResult = MathRound(y_target),
              !.stage = "shown"]

PredictAt(l, n_target) ==
    Predicted(l, n_target,
              RAdd(RMul(l.final_regression.m, n_target), l.final_regression.c))

FinalResult(l, x_target, targetParity) ==
    PredictAt(l, transform_fn(x_target, targetParity))

\* section E after a successful fit: the initial classification
InitialFit(l, r2_percent_initial) ==
    [l EXCEPT !.r2_percent_initial = r2_percent_initial,
              !.final_regression = l.main_regression,
              !.final_r2_percent = r2_percent_initial,
              !.analysis_level = "success",
              !.analysis_message = [NoMessage EXCEPT !.kind = "strong_pattern"]]

AfterFit(l, x_target, targetParity) ==
    IF ~l.main_regression.ok
    THEN [l EXCEPT !.stage = "degenerate_input"]
    ELSE FinalResult(OutlierCorrection(InitialFit(l, Percent(l.main_regression.r2))),
                     x_target, targetParity)

\* section E: the main regression
MainRegression(l, x_target, targetParity) ==
    AfterFit([l EXCEPT !.main_regression =
                 calculateRegression(l.x_prime_values, ToNumbers(l.filtered_y))],
             x_target, targetParity)

\* filtered_x.map(transform_fn)
Transformed(filtered_x, targetParity) ==
    [i \in 1..Len(filtered_x) |-> transform_fn(filtered_x[i], targetParity)]

\* sections C and D: the count check and the transform
Validated(l, x_target, targetParity) ==
    IF Len(l.filtered_x) < MIN_POINTS
    THEN [l EXCEPT !.stage = "insufficient_data"]
    ELSE MainRegression([l EXCEPT !.x_prime_values =
                            Transformed(l.filtered_x, targetParity)],
                        x_target, targetParity)

\* section B: the filtered arrays
Collected(kept, display, x_target, targetParity) ==
    Validated([NoLocals EXCEPT
                 !.parityType = ParityType(targetParity),
                 !.activeFilterDisplay = display,
                 !.filtered_x = [i \in 1..Len(kept) |-> kept[i].house[1]],
                 !.filtered_y = [i \in 1..Len(kept) |-> kept[i].title[1]]],
              x_target, targetParity)

ForTarget(rs, cb, x_target, targetParity) ==
    Collected(FilteredRows(rs, targetParity), ActiveFilterDisplay(cb),
              x_target, targetParity)

\* the locals of one run of the submit handler: section A, then the rest
SubmitLocals(rs, tgt, cb) ==
    IF tgt = Blank
    THEN [NoLocals EXCEPT !.stage = "invalid_target"]
    ELSE ForTarget(rs, cb, tgt[1], JsMod(tgt[1], 2))

\* the heading showResult writes into analysisLevel
AnalysisLevelText(level, r2_percent) ==
    IF level = "success"
       \/ (level = "info" /\ RGe(r2_percent, R(CONFIDENCE_THRESHOLD)))
    THEN "High Confidence"
    ELSE IF level = "warning" THEN "Low Confidence"
    ELSE "Analysis Note"

\* ------------------------------------------------------------------------
\* Inputs the model draws from
\* ------------------------------------------------------------------------
\* (house, title) pairs a user types into a row; the last leaves the title
\* empty
TypedPairs ==
    { <<<<2>>, <<100>>>>, <<<<4>>, <<102>>>>, <<<<6>>, <<200>>>> }

\* target house numbers a user types
TypedTargets == { 8 }

\* parsed spreadsheets: columns of (house, title, type), first column index 3
Sheets ==
    { << [house |-> 2, title |-> 100, type |-> "A"],
         [house |-> 6, title |-> 200, type |-> "B"],
         [house |-> 4, title |-> 102, type |-> "A"],
         [house |-> 8, title |-> 100, type |-> "B"] >> }

\* ------------------------------------------------------------------------
\* State
\* ------------------------------------------------------------------------
VARIABLES
    rows,              \* the .input-group rows of dataPointContainer
    allUploadedData,   \* the global array of parsed samples
    normalizedTypeMap, \* the types of the last processed sheet
    checkboxes,        \* the filter checkboxes of typeSelectorCheckboxes
    pendingFile,       \* a file handed to the FileReader, not yet loaded
    targetHouse,       \* value of the target-house input
    resultContainer,   \* the result panel
    errorContainer,    \* the error panel
    locals,            \* locals of the last run of the submit handler
    submitsInARow,     \* submit handler runs since any other handler ran
    events             \* handlers run since the page was loaded

vars == <<rows, allUploadedData, normalizedTypeMap, checkboxes, pendingFile,
          targetHouse, resultContainer, errorContainer, locals, submitsInARow,
          events>>

inputs == <<rows, allUploadedData, normalizedTypeMap, checkboxes, pendingFile,
            targetHouse>>

BlankRow == [house |-> Blank, title |-> Blank, type |-> "", hidden |-> FALSE]

NoCheckboxes == [exists |-> FALSE, all |-> FALSE, types |-> {}, checked |-> {}]

\* createDataPointWithValue: nothing is added at the row limit
createDataPointWithValue(rs, house, title, indication) ==
    IF Len(rs) >= MaxRows THEN rs
    ELSE Append(rs, [house |-> house, title |-> title,
                     type |-> indication, hidden |-> FALSE])

createBlankDataPoint(rs) == createDataPointWithValue(rs, Blank, Blank, "")

\* filterDataPoints: rows of unchecked types are hidden
filterDataPoints(rs, cb) ==
    IF ~cb.exists THEN rs
    ELSE [i \in 1..Len(rs) |->
            [rs[i] EXCEPT !.hidden = ~(cb.all \/ rs[i].type \in cb.checked)]]

showError(message) == [hidden |-> FALSE, errorText |-> message]

\* the forEach of populateDataPoints over the first k items
RECURSIVE PopulateLoop(_, _)
PopulateLoop(data, k) ==
    IF k = 0 THEN <<>>
    ELSE createDataPointWithValue(PopulateLoop(data, k - 1),
             <<data[k].houseNum>>, <<data[k].titleNum>>, data[k].type)

\* populateDataPoints: the rows it leaves
populateDataPoints(data, cb) ==
    LET filled == PopulateLoop(data, Len(data))
        padded == IF Len(data) < 2
                  THEN createBlankDataPoint(createBlankDataPoint(filled))
                  ELSE filled
    IN  filterDataPoints(padded, cb)

\* populateDataPoints: the error panel it leaves
populateError(data, uploaded, ec) ==
    IF Len(data) < 2 /\ Len(uploaded) > 0
    THEN showError("not_enough_pairs")
    ELSE ec

Init ==
    /\ rows = createBlankDataPoint(createBlankDataPoint(<<>>))
    /\ allUploadedData = <<>>
    /\ normalizedTypeMap = {}
    /\ checkboxes = NoCheckboxes
    /\ pendingFile = <<>>
    /\ targetHouse = Blank
    /\ resultContainer = [hidden |-> TRUE, classes |-> {}, h2 |-> Blank,
                          resultText |-> 0, resultTitleType |-> {},
                          formulaText |-> [name |-> "", m |-> R(0), c |-> R(0)],
                          analysisLevel |-> [text |-> "", r2_percent |-> R(0)],
                          analysisText |-> NoMessage]
    /\ errorContainer = [hidden |-> TRUE, errorText |-> ""]
    /\ locals = NoLocals
    /\ submitsInARow = 0
    /\ events = 0

\* one more handler runs, within the explored horizon
Tick == events < MaxEvents /\ events' = events + 1

\* ------------------------------------------------------------------------
\* Handlers
\* ------------------------------------------------------------------------
\* the user types a target house number, or clears it
TypeTarget(t) ==
    /\ targetHouse' = t
    /\ submitsInARow' = 0
    /\ UNCHANGED <<rows, allUploadedData, normalizedTypeMap, checkboxes,
                   pendingFile, resultContainer, errorContainer, locals>>

\* the user types a house and a title number into the visible row i
TypeRow(i, pair) ==
    /\ i \in 1..Len(rows)
    /\ ~rows[i].hidden
    /\ rows' = [rows EXCEPT ![i].house = pair[1], ![i].title = pair[2]]
    /\ submitsInARow' = 0
    /\ UNCHANGED <<allUploadedData, normalizedTypeMap, checkboxes, pendingFile,
                   targetHouse, resultContainer, errorContainer, locals>>

\* click on the add-point button (disabled at the row limit)
AddPoint ==
    /\ Len(rows) < MaxRows
    /\ rows' = createBlankDataPoint(rows)
    /\ submitsInARow' = 0
    /\ UNCHANGED <<allUploadedData, normalizedTypeMap, checkboxes, pendingFile,
                   targetHouse, resultContainer, errorContainer, locals>>

\* click on the remove button of the visible row i (disabled at MIN_POINTS)
RemovePoint(i) ==
    /\ i \in 1..Len(rows)
    /\ ~rows[i].hidden
    /\ Len(rows) > MIN_POINTS
    /\ allUploadedData' = IF i - 1 < Len(allUploadedData)
                          THEN FilterOutIndex(allUploadedData, i - 1)
                          ELSE allUploadedData
    /\ rows' = FilterOutIndex(rows, i - 1)
    /\ submitsInARow' = 0
    /\ UNCHANGED <<normalizedTypeMap, checkboxes, pendingFile, targetHouse,
                   resultContainer, errorContainer, locals>>

\* handleFile: a spreadsheet is chosen; the form is cleared and the file read
HandleFile(sheet) ==
    /\ pendingFile = <<>>
    /\ pendingFile' = <<sheet>>
    /\ errorContainer' = [errorContainer EXCEPT !.hidden = TRUE]
    /\ rows' = <<>>
    /\ checkboxes' = NoCheckboxes
    /\ submitsInARow' = 0
    /\ UNCHANGED <<allUploadedData, normalizedTypeMap, targetHouse,
                   resultContainer, locals>>

\* reader.onload with processExcelData on the parsed sheet
ReaderOnload ==
    /\ pendingFile # <<>>
    /\ LET sheet == pendingFile[1]
           data == [k \in 1..Len(sheet) |->
                      [index |-> k + 2, houseNum |-> sheet[k].house,
                       titleNum |-> sheet[k].title, type |-> sheet[k].type]]
           types == { sheet[k].type : k \in 1..Len(sheet) } \ {""}
           cb == IF types # {}
                 THEN [exists |-> TRUE, all |-> TRUE, types |-> types,
                       checked |-> types]
                 ELSE checkboxes
       IN  /\ allUploadedData' = data
           /\ normalizedTypeMap' = types
           /\ checkboxes' = cb
           /\ rows' = populateDataPoints(data, cb)
           /\ errorContainer' = populateError(data, data, errorContainer)
    /\ pendingFile' = <<>>
    /\ submitsInARow' = 0
    /\ UNCHANGED <<targetHouse, resultContainer, locals>>

\* onFilterChange: the user toggles the checkbox box ("ALL" or a type)
OnFilterChange(box) ==
    /\ checkboxes.exists
    /\ box \in checkboxes.types \cup {"ALL"}
    /\ LET cb == IF box = "ALL"
                 THEN [checkboxes EXCEPT
                         !.all = ~checkboxes.all,
                         !.checked = IF ~checkboxes.all THEN checkboxes.types ELSE {}]
                 ELSE LET checked == IF box \in checkboxes.checked
                                     THEN checkboxes.checked \ {box}
                                     ELSE checkboxes.checked \cup {box}
                      IN  [checkboxes EXCEPT !.checked = checked,
                                             !.all = (checked = checkboxes.types)]
       IN  /\ checkboxes' = cb
           /\ rows' = filterDataPoints(rows, cb)
    /\ submitsInARow' = 0
    /\ UNCHANGED <<allUploadedData, normalizedTypeMap, pendingFile, targetHouse,
                   resultContainer, errorContainer, locals>>

\* the key sortData compares by
SortKey(item, sortBy) ==
    IF sortBy = "house" THEN item.houseNum
    ELSE IF sortBy = "title" THEN item.titleNum
    ELSE item.index

\* Array.prototype.sort (stable) by insertion
RECURSIVE SortedBy(_, _)
SortedBy(data, sortBy) ==
    IF Len(data) <= 1 THEN data
    ELSE LET head == SortedBy(SubSeq(data, 1, Len(data) - 1), sortBy)
             last == data[Len(data)]
             before == SelectSeq(head, LAMBDA it : SortKey(it, sortBy) <= SortKey(last, sortBy))
             after == SelectSeq(head, LAMBDA it : SortKey(it, sortBy) > SortKey(last, sortBy))
         IN  before \o <<last>> \o after

\* sortData: change of the sort select (shown once a sheet has types)
SortData(sortBy) ==
    /\ checkboxes.exists
    /\ LET sorted == SortedBy(allUploadedData, sortBy)
       IN  /\ allUploadedData' = sorted
           /\ rows' = populateDataPoints(sorted, checkboxes)
           /\ errorContainer' = populateError(sorted, sorted, errorContainer)
    /\ submitsInARow' = 0
    /\ UNCHANGED <<normalizedTypeMap, checkboxes, pendingFile, targetHouse,
                   resultContainer, locals>>

\* showResult: the result panel it leaves
showResult(rc, targetHouse_, l) ==
    [hidden |-> FALSE,
     classes |-> rc.classes \cup {l.analysis_level},
     h2 |-> targetHouse_,
     resultText |-> l.finalResult,
     resultTitleType |-> l.activeFilterDisplay,
     formulaText |-> [name |-> transform_name(JsMod(targetHouse_[1], 2)),
                      m |-> l.final_regression.m, c |-> l.final_regression.c],
     analysisLevel |-> [text |-> AnalysisLevelText(l.analysis_level, l.final_r2_percent),
                        r2_percent |-> l.final_r2_percent],
     analysisText |-> l.analysis_message]

\* the message of the error a run ends with
ErrorMessage(l) ==
    IF l.stage = "invalid_target" THEN "enter_target"
    ELSE IF l.stage = "insufficient_data" THEN "not_enough_" \o l.parityType
    ELSE "all_house_numbers_identical"

\* faulty variant: the result panel is left as it was shown
HidePanelsKeepResult(rc) == [rc EXCEPT !.classes = {}]

\* the panels are hidden and the level classes dropped before anything else
HidePanels(rc) == [rc EXCEPT !.hidden = TRUE, !.classes = {}]

\* the panels after a run with locals l
PanelsAfter(l, rc, ec) ==
    IF l.stage = "shown"
    THEN /\ resultContainer' = showResult(rc, targetHouse, l)
         /\ errorContainer' = ec
    ELSE /\ resultContainer' = rc
         /\ errorContainer' = showError(ErrorMessage(l))

SubmitWith(l) ==
    /\ locals' = l
    /\ PanelsAfter(l, HidePanels(resultContainer),
                   [errorContainer EXCEPT !.hidden = TRUE])

\* one more submit run in a row, counted up to MaxStreak
Resubmitted ==
    submitsInARow' = IF submitsInARow < MaxStreak THEN submitsInARow + 1 ELSE MaxStreak

\* faulty variant: the form is reset by the submission
SubmitResettingTarget ==
    /\ SubmitWith(SubmitLocals(rows, targetHouse, checkboxes))
    /\ Resubmitted
    /\ targetHouse' = Blank
    /\ UNCHANGED <<rows, allUploadedData, normalizedTypeMap, checkboxes, pendingFile>>

\* the submit handler
Submit ==
    /\ SubmitWith(SubmitLocals(rows, targetHouse, checkboxes))
    /\ Resubmitted
    /\ UNCHANGED inputs

Next ==
    \/ \E t \in {Blank} \cup { <<v>> : v \in TypedTargets } : Tick /\ TypeTarget(t)
    \/ \E i \in 1..MaxRows, pair \in TypedPairs : Tick /\ TypeRow(i, pair)
    \/ Tick /\ AddPoint
    \/ \E i \in 1..MaxRows : Tick /\ RemovePoint(i)
    \/ \E sheet \in Sheets : Tick /\ HandleFile(sheet)
    \/ Tick /\ ReaderOnload
    \/ \E box \in {"ALL", "A", "B"} : Tick /\ OnFilterChange(box)
    \/ \E sortBy \in {"house", "title", "default"} : Tick /\ SortData(sortBy)
    \/ Tick /\ Submit

Spec == Init /\ [][Next]_vars

\* ------------------------------------------------------------------------
\* The submit handler on forms filled in by hand
\* ------------------------------------------------------------------------
\* rows typed from a list of even samples and a row without title
FormPairs ==
    { <<<<2>>, <<100>>>>, <<<<4>>, <<102>>>>, <<<<6>>, <<200>>>>,
      <<<<8>>, <<100>>>>, <<<<4>>, Blank>> }

\* rows typed from a list of two odd samples and an even one
MixedPairs == { <<<<3>>, <<100>>>>, <<<<7>>, <<111>>>>, <<<<2>>, <<100>>>> }

\* rows typed from a small grid of even houses and titles
GridPairs == { <<<<h>>, <<t>>>> : h \in {2, 4, 6}, t \in {0, 1, 2} }

FormTargets == { 8, 5, -3 }

RowOf(pair) == [BlankRow EXCEPT !.house = pair[1], !.title = pair[2]]

FormsOver(pairs, maxLen) ==
    UNION { [1..n -> { RowOf(p) : p \in pairs }] : n \in MIN_POINTS..maxLen }

\* forms typed row by row: three samples off one line followed by a row
\* without title, four samples that no single removal repairs, one house
\* entered three times, three houses sharing a title, two odd houses below
\* zero
HandForms ==
    { << RowOf(<<<<2>>, <<100>>>>), RowOf(<<<<4>>, <<102>>>>),
         RowOf(<<<<6>>, <<200>>>>), RowOf(<<<<4>>, Blank>>) >>,
      << RowOf(<<<<2>>, <<100>>>>), RowOf(<<<<4>>, <<102>>>>),
         RowOf(<<<<6>>, <<200>>>>), RowOf(<<<<8>>, <<100>>>>) >>,
      << RowOf(<<<<2>>, <<0>>>>), RowOf(<<<<2>>, <<1>>>>), RowOf(<<<<2>>, <<2>>>>) >>,
      << RowOf(<<<<2>>, <<1>>>>), RowOf(<<<<4>>, <<1>>>>), RowOf(<<<<6>>, <<1>>>>) >>,
      << RowOf(<<<<-5>>, <<10>>>>), RowOf(<<<<-1>>, <<14>>>>) >> }

InitForm ==
    /\ rows \in FormsOver(FormPairs, MaxForm)
                 \cup FormsOver(MixedPairs, MaxGrid)
                 \cup FormsOver(GridPairs, MaxGrid)
                 \cup HandForms
    /\ allUploadedData = <<>>
    /\ normalizedTypeMap = {}
    /\ checkboxes = NoCheckboxes
    /\ pendingFile = <<>>
    /\ targetHouse = Blank
    /\ resultContainer = [hidden |-> TRUE, classes |-> {}, h2 |-> Blank,
                          resultText |-> 0, resultTitleType |-> {},
                          formulaText |-> [name |-> "", m |-> R(0), c |-> R(0)],
                          analysisLevel |-> [text |-> "", r2_percent |-> R(0)],
                          analysisText |-> NoMessage]
    /\ errorContainer = [hidden |-> TRUE, errorText |-> ""]
    /\ locals = NoLocals
    /\ submitsInARow = 0
    /\ events = 0

NextForm ==
    \/ \E t \in {Blank} \cup { <<v>> : v \in FormTargets } :
          TypeTarget(t) /\ UNCHANGED events
    \/ Submit /\ UNCHANGED events

SpecForm == InitForm /\ [][NextForm]_vars

\* ------------------------------------------------------------------------
\* findOutlierByResidual called on its own
\* ------------------------------------------------------------------------
\* house numbers, titles and (slope, intercept) pairs of the calls
OutlierHouses == { 2, 4, 6 }

OutlierTitles == { 1, 2, 30 }

OutlierLines == { <<R(1), R(0)>>, <<R(0), R(16)>>, <<<<1, 2>>, R(1)>> }

\* the arguments of one call, held in the fields of locals that the submit
\* handler passes: x_prime_values, filtered_y, filtered_x, m and c
InitOutlier ==
    /\ \E n \in 1..MaxPoints :
          \E hs \in [1..n -> OutlierHouses], ts \in [1..n -> OutlierTitles],
             line \in OutlierLines :
              locals = [NoLocals EXCEPT
                          !.stage = "outlier_call",
                          !.filtered_x = hs,
                          !.filtered_y = ts,
                          !.x_prime_values = Transformed(hs, 0),
                          !.main_regression =
                              [ok |-> TRUE, m |-> line[1], c |-> line[2], r2 |-> R(0)]]
    /\ rows = <<>>
    /\ allUploadedData = <<>>
    /\ normalizedTypeMap = {}
    /\ checkboxes = NoCheckboxes
    /\ pendingFile = <<>>
    /\ targetHouse = Blank
    /\ resultContainer = [hidden |-> TRUE, classes |-> {}, h2 |-> Blank,
                          resultText |-> 0, resultTitleType |-> {},
                          formulaText |-> [name |-> "", m |-> R(0), c |-> R(0)],
                          analysisLevel |-> [text |-> "", r2_percent |-> R(0)],
                          analysisText |-> NoMessage]
    /\ errorContainer = [hidden |-> TRUE, errorText |-> ""]
    /\ submitsInARow = 0
    /\ events = 0

\* the call and its returned object
FindOutlier ==
    /\ locals.stage = "outlier_call"
    /\ locals' = [locals EXCEPT
                    !.stage = "outlier_returned",
                    !.outlier_info =
                        findOutlierByResidual(locals.x_prime_values,
                            ToNumbers(locals.filtered_y), locals.filtered_x,
                            locals.main_regression.m, locals.main_regression.c)]
    /\ UNCHANGED <<rows, allUploadedData, normalizedTypeMap, checkboxes, pendingFile,
                   targetHouse, resultContainer, errorContainer, submitsInARow, events>>

NextOutlier == FindOutlier

SpecOutlier == InitOutlier /\ [][NextOutlier]_vars

\* ------------------------------------------------------------------------
\* Vocabulary of the properties
\* ------------------------------------------------------------------------
\* the visible rows with both inputs filled, as (house, title) pairs, in order
CompletePairs(rs) ==
    LET shown == SelectSeq(rs, LAMBDA r : ~r.hidden /\ r.house # Blank /\ r.title # Blank)
    IN  [i \in 1..Len(shown) |-> <<shown[i].house[1], shown[i].title[1]>>]

\* integers of equal parity
SameParity(a, b) == (a - b) % 2 = 0

\* the pairs of rs whose house number has the parity of the integer t
PairsOfParity(rs, t) ==
    SelectSeq(CompletePairs(rs), LAMBDA p : SameParity(p[1], t))

\* the (house, title) pairs the last run retained
RetainedPairs ==
    [i \in 1..Len(locals.filtered_x) |-> <<locals.filtered_x[i], locals.filtered_y[i]>>]

\* the last handler that ran was the submit handler
justSubmitted == submitsInARow > 0

Classified == justSubmitted /\ locals.stage = "shown"

\* ------------------------------------------------------------------------
\* C1 (as stated): with the samples (2,100), (4,102), (6,200) retained and
\* target house 8, the submit transforms the houses to 1, 2, 3, finds the
\* initial fit below 90%, removes index 2 (house 6), re-fits on (1,100),
\* (2,102) with slope 2, intercept 98 and R2 = 1, classifies the outcome
\* Note and shows title number 106.
\* ------------------------------------------------------------------------
C1_Case ==
    /\ justSubmitted
    /\ targetHouse = <<8>>
    /\ PairsOfParity(rows, 8) = << <<2, 100>>, <<4, 102>>, <<6, 200>> >>

C1_EndToEnd ==
    C1_Case =>
        /\ locals.x_prime_values = << R(1), R(2), R(3) >>
        /\ RLt(locals.r2_percent_initial, R(90))
        /\ locals.outlier_info = [outlier_house |-> 6, outlier_index |-> 2]
        /\ locals.corrected_x_prime = << R(1), R(2) >>
        /\ locals.corrected_y = << 100, 102 >>
        /\ locals.final_regression = [ok |-> TRUE, m |-> R(2), c |-> R(98), r2 |-> R(1)]
        /\ locals.analysis_level = "info"
        /\ locals.y_target = R(106)
        /\ ~resultContainer.hidden
        /\ resultContainer.classes = {"info"}
        /\ resultContainer.resultText = 106

\* C1 (amended): in that case the initial fit is slope 50, intercept 34 with
\* R2 = 625/817; the largest squared residual is at index 1 (house 4), which
\* is removed; the re-fit on (1,100), (3,200) has slope 50, intercept 50 and
\* R2 = 1; the outcome is Note and the title number shown is 250.
C1_EndToEndAmended ==
    C1_Case =>
        /\ locals.x_prime_values = << R(1), R(2), R(3) >>
        /\ locals.main_regression =
               [ok |-> TRUE, m |-> R(50), c |-> R(34), r2 |-> <<625, 817>>]
        /\ RLt(locals.r2_percent_initial, R(90))
        /\ locals.outlier_info = [outlier_house |-> 4, outlier_index |-> 1]
        /\ locals.corrected_x_prime = << R(1), R(3) >>
        /\ locals.corrected_y = << 100, 200 >>
        /\ locals.final_regression = [ok |-> TRUE, m |-> R(50), c |-> R(50), r2 |-> R(1)]
        /\ locals.analysis_level = "info"
        /\ locals.y_target = R(250)
        /\ ~resultContainer.hidden
        /\ resultContainer.classes = {"info"}
        /\ resultContainer.resultText = 250

C1_Witness ==
    /\ C1_Case
    /\ Len(rows) = 4
    /\ resultContainer.resultText = 250
    /\ locals.analysis_message.excluded = <<4>>

\* ------------------------------------------------------------------------
\* C2: a submit that reaches classification is High iff the initial
\* R2 x 100 >= 90; Note iff the initial R2 x 100 < 90, at least 3 samples are
\* retained and the re-fit without the detected outlier succeeds with
\* R2 x 100 >= 90; Low in every other case; exactly one level is produced.
\* ------------------------------------------------------------------------
InitialHigh == RGe(Percent(locals.main_regression.r2), R(90))

RefitHigh ==
    /\ locals.corrected_regression.ok
    /\ RGe(Percent(locals.corrected_regression.r2), R(90))

C2_Levels ==
    Classified =>
        /\ locals.analysis_level \in {"success", "info", "warning"}
        /\ resultContainer.classes = {locals.analysis_level}
        /\ (locals.analysis_level = "success") = InitialHigh
        /\ (locals.analysis_level = "info") =
               (~InitialHigh /\ Len(locals.filtered_x) >= 3 /\ RefitHigh)
        /\ (locals.analysis_level = "warning") =
               (~InitialHigh /\ ~(Len(locals.filtered_x) >= 3 /\ RefitHigh))
        /\ (~InitialHigh /\ Len(locals.filtered_x) >= 3) =>
               /\ locals.corrected_x_prime =
                      FilterOutIndex(locals.x_prime_values, locals.outlier_info.outlier_index)
               /\ Len(locals.corrected_x_prime) = Len(locals.filtered_x) - 1
        /\ (InitialHigh \/ Len(locals.filtered_x) < 3) =>
               locals.corrected_regression = Null

C2_Witness ==
    /\ Classified
    /\ locals.analysis_level = "info"
    /\ Len(locals.filtered_x) = 3
    /\ ~InitialHigh
    /\ RefitHigh

\* ------------------------------------------------------------------------
\* C3: when the outcome is High or Low, also Low after an outlier removal
\* whose re-fit stayed below 90%, the final slope, intercept and percentage
\* are those of the initial fit over all retained samples and no sample is
\* reported as excluded; the final fit differs from the initial one only
\* when the outcome is Note.
\* ------------------------------------------------------------------------
C3_FinalFit ==
    Classified =>
        /\ locals.analysis_level \in {"success", "warning"} =>
               /\ locals.final_regression = locals.main_regression
               /\ locals.final_r2_percent = Percent(locals.main_regression.r2)
               /\ locals.analysis_message.excluded = <<>>
               /\ resultContainer.formulaText.m = locals.main_regression.m
               /\ resultContainer.formulaText.c = locals.main_regression.c
               /\ resultContainer.analysisLevel.r2_percent = locals.r2_percent_initial
               /\ resultContainer.analysisText.excluded = <<>>
        /\ locals.final_regression # locals.main_regression =>
               locals.analysis_level = "info"

C3_Witness ==
    /\ Classified
    /\ locals.analysis_level = "warning"
    /\ locals.outlier_info.outlier_index >= 0
    /\ locals.corrected_regression.ok
    /\ locals.corrected_regression # locals.main_regression
    /\ locals.final_regression = locals.main_regression

\* ------------------------------------------------------------------------
\* C4 (as stated): for every integer target the retained samples are exactly
\* the visible, complete rows whose house number has the target's parity, in
\* their order; with fewer than 2 of them the submit ends with the
\* InsufficientData error naming that parity and shows no prediction.
\* ------------------------------------------------------------------------
ParityName(t) == IF t % 2 = 0 THEN "even" ELSE "odd"

C4_ParityPartition ==
    (justSubmitted /\ targetHouse # Blank) =>
        /\ RetainedPairs = PairsOfParity(rows, targetHouse[1])
        /\ Len(PairsOfParity(rows, targetHouse[1])) < 2 =>
               /\ locals.stage = "insufficient_data"
               /\ ~errorContainer.hidden
               /\ errorContainer.errorText = "not_enough_" \o ParityName(targetHouse[1])
               /\ resultContainer.hidden
        /\ Len(PairsOfParity(rows, targetHouse[1])) >= 2 =>
               locals.stage # "insufficient_data"

\* ------------------------------------------------------------------------
\* Sums written out for the properties
\* ------------------------------------------------------------------------
RECURSIVE Sigma(_, _)
Sigma(terms, n) == IF n = 0 THEN R(0) ELSE RAdd(Sigma(terms, n - 1), terms[n])

Average(vs) == RDiv(Sigma(vs, Len(vs)), R(Len(vs)))

\* sum of (x_i - xbar)(y_i - ybar)
CoSum(xs, ys, xbar, ybar) ==
    Sigma([i \in 1..Len(xs) |-> RMul(RSub(xs[i], xbar), RSub(ys[i], ybar))], Len(xs))

\* sum of (y_i - (slope x_i + intercept))^2
RSS(xs, ys, slope, intercept) ==
    Sigma([i \in 1..Len(xs) |->
             RSq(RSub(ys[i], RAdd(RMul(slope, xs[i]), intercept)))], Len(xs))

AllEqual(vs) == \A i, j \in 1..Len(vs) : vs[i] = vs[j]

\* all points on one line that is not vertical
Collinear(xs, ys) ==
    /\ ~AllEqual(xs)
    /\ \A i, j, k \in 1..Len(xs) :
          RMul(RSub(xs[j], xs[i]), RSub(ys[k], ys[i]))
            = RMul(RSub(xs[k], xs[i]), RSub(ys[j], ys[i]))

\* the two calls of calculateRegression a run may make: which, on what
\* arrays, with what result
FitCalls ==
    { c \in { [xs |-> locals.x_prime_values, ys |-> ToNumbers(locals.filtered_y),
               fit |-> locals.main_regression, main |-> TRUE],
              [xs |-> locals.corrected_x_prime, ys |-> ToNumbers(locals.corrected_y),
               fit |-> locals.corrected_regression, main |-> FALSE] } :
        justSubmitted /\ Len(c.xs) >= 2 }

\* ------------------------------------------------------------------------
\* C5: calculateRegression on paired arrays of length >= 2 returns null
\* exactly when all x-coordinates are equal, whatever the y values, and a
\* fit otherwise; when the initial fit fails the submit ends with the
\* DegenerateInput error and shows no prediction.
\* ------------------------------------------------------------------------
C5_Degenerate ==
    /\ \A c \in FitCalls : (c.fit = Null) = AllEqual(c.xs)
    /\ \A c \in FitCalls : (c.fit # Null) => c.fit.ok
    /\ (justSubmitted /\ Len(locals.filtered_x) >= 2) =>
          IF locals.main_regression = Null
          THEN /\ locals.stage = "degenerate_input"
               /\ ~errorContainer.hidden
               /\ errorContainer.errorText = "all_house_numbers_identical"
               /\ resultContainer.hidden
          ELSE locals.stage = "shown"

C5_Witness ==
    /\ justSubmitted
    /\ locals.stage = "degenerate_input"
    /\ Len(locals.filtered_y) = 3
    /\ ~AllEqual(locals.filtered_y)
    /\ ~errorContainer.hidden

\* ------------------------------------------------------------------------
\* C6: with at least 2 distinct x-coordinates calculateRegression returns
\* slope = sum((x_i - xbar)(y_i - ybar)) / sum((x_i - xbar)^2) and
\* intercept = ybar - slope xbar, and no candidate (slope, intercept) pair
\* has a strictly smaller residual sum of squares.
\* ------------------------------------------------------------------------
Deltas == { <<-1, 2>>, <<0, 1>>, <<1, 2>> }

CandidateLines(m, c) ==
    { <<RAdd(m, dm), RAdd(c, dc)>> : dm \in Deltas, dc \in Deltas }
      \cup { <<R(sl), R(ic)>> : sl \in -1..1, ic \in 0..2 }

\* no candidate line leaves less than the residual sum of squares least
NoLineBelow(xs, ys, lines, least) ==
    \A cand \in lines : RGe(RSS(xs, ys, cand[1], cand[2]), least)

C6_LeastSquares ==
    \A c \in FitCalls :
        ~AllEqual(c.xs) =>
            /\ c.fit.ok
            /\ c.fit.m = RDiv(CoSum(c.xs, c.ys, Average(c.xs), Average(c.ys)),
                              CoSum(c.xs, c.xs, Average(c.xs), Average(c.xs)))
            /\ c.fit.c = RSub(Average(c.ys), RMul(c.fit.m, Average(c.xs)))
            /\ NoLineBelow(c.xs, c.ys, CandidateLines(c.fit.m, c.fit.c),
                           RSS(c.xs, c.ys, c.fit.m, c.fit.c))

C6_Witness ==
    /\ Classified
    /\ Len(locals.x_prime_values) = 3
    /\ \A i, j \in 1..3 : i # j => locals.x_prime_values[i] # locals.x_prime_values[j]
    /\ ~Collinear(locals.x_prime_values, ToNumbers(locals.filtered_y))
    /\ locals.main_regression.m[2] # 1

\* ------------------------------------------------------------------------
\* C7: the R2 returned by calculateRegression is 1 whenever the points are
\* perfectly collinear (all y identical included); when the total sum of
\* squares is 0 it is 1 if the residual sum of squares is 0 and 0 otherwise;
\* in all other cases it is 1 - SSresidual / SStotal.
\* ------------------------------------------------------------------------
SSTotalOf(c) == CoSum(c.ys, c.ys, Average(c.ys), Average(c.ys))

SSResidualOf(c) == RSS(c.xs, c.ys, c.fit.m, c.fit.c)

C7_RSquared ==
    \A c \in FitCalls :
        c.fit.ok =>
            /\ Collinear(c.xs, c.ys) => c.fit.r2 = R(1)
            /\ IF SSTotalOf(c) = R(0)
               THEN c.fit.r2 = (IF SSResidualOf(c) = R(0) THEN R(1) ELSE R(0))
               ELSE c.fit.r2 = RSub(R(1), RDiv(SSResidualOf(c), SSTotalOf(c)))

C7_Witness ==
    /\ Classified
    /\ Len(locals.filtered_y) = 3
    /\ AllEqual(locals.filtered_y)
    /\ \A i, j \in 1..3 : i # j => locals.x_prime_values[i] # locals.x_prime_values[j]
    /\ locals.main_regression.r2 = R(1)

\* ------------------------------------------------------------------------
\* C9: the title number shown is the raw prediction slope x' + intercept
\* rounded to the nearest integer, exact .5 boundaries rounded half-up by one
\* rule: 105.5 gives 106 and -0.5 gives 0.
\* ------------------------------------------------------------------------
C9_Rounding ==
    Classified =>
        /\ locals.y_target = RAdd(RMul(locals.final_regression.m, locals.n_target),
                                  locals.final_regression.c)
        /\ resultContainer.resultText = locals.finalResult
        /\ RGe(locals.y_target, RSub(R(locals.finalResult), <<1, 2>>))
        /\ RGe(RAdd(R(locals.finalResult), <<1, 2>>), locals.y_target)
        /\ locals.y_target[2] = 2 =>
               R(locals.finalResult) = RAdd(locals.y_target, <<1, 2>>)
        /\ locals.y_target = <<211, 2>> => resultContainer.resultText = 106
        /\ locals.y_target = <<-1, 2>> => resultContainer.resultText = 0

C9_Witness ==
    /\ Classified
    /\ locals.y_target = <<-1, 2>>
    /\ resultContainer.resultText = 0

C9_WitnessUp ==
    /\ Classified
    /\ locals.y_target = <<211, 2>>
    /\ resultContainer.resultText = 106

\* ------------------------------------------------------------------------
\* C8: after every submit exactly one of the result panel and the error
\* panel is visible: an InvalidTarget, InsufficientData or DegenerateInput
\* error shows the error and no result; a submit that reaches
\* classification, Low confidence included, shows the prediction with its
\* confidence message and no error.
\* ------------------------------------------------------------------------
C8_Panels ==
    justSubmitted =>
        /\ resultContainer.hidden # errorContainer.hidden
        /\ locals.stage \in {"invalid_target", "insufficient_data",
                             "degenerate_input", "shown"}
        /\ (locals.stage = "invalid_target") = (targetHouse = Blank)
        /\ locals.stage # "shown" =>
               /\ ~errorContainer.hidden
               /\ resultContainer.hidden
               /\ resultContainer.classes = {}
               /\ errorContainer.errorText \in
                      {"enter_target", "not_enough_even", "not_enough_odd",
                       "all_house_numbers_identical"}
        /\ locals.stage = "shown" =>
               /\ ~resultContainer.hidden
               /\ errorContainer.hidden
               /\ resultContainer.resultText = locals.finalResult
               /\ resultContainer.h2 = targetHouse
               /\ resultContainer.analysisText = locals.analysis_message
               /\ resultContainer.analysisText.kind \in
                      {"strong_pattern", "ignored_outlier", "inconsistent",
                       "more_data_needed"}
               /\ resultContainer.classes = {locals.analysis_level}

C8_Witness ==
    /\ justSubmitted
    /\ locals.analysis_level = "warning"
    /\ allUploadedData # <<>>
    /\ ~resultContainer.hidden
    /\ errorContainer.hidden
    /\ resultContainer.analysisText.kind = "inconsistent"
    /\ resultContainer.analysisLevel.text = "Low Confidence"

\* ------------------------------------------------------------------------
\* C10: a submit never modifies the sample rows, their visibility, the
\* filter state or allUploadedData, and a second submit right after a first,
\* with the same target and rows, yields the identical outcome.
\* ------------------------------------------------------------------------
C10_Idempotent ==
    [][ submitsInARow' > 0 =>
          /\ rows' = rows
          /\ checkboxes' = checkboxes
          /\ normalizedTypeMap' = normalizedTypeMap
          /\ allUploadedData' = allUploadedData
          /\ targetHouse' = targetHouse
          /\ submitsInARow > 0 =>
                /\ locals' = locals
                /\ resultContainer' = resultContainer
                /\ errorContainer' = errorContainer ]_vars

C10_Witness ==
    /\ submitsInARow = 2
    /\ locals.stage = "shown"
    /\ allUploadedData # <<>>
    /\ \E i \in 1..Len(rows) : rows[i].hidden
    /\ ~checkboxes.all

\* ------------------------------------------------------------------------
\* C11: within one submit every retained house number and the target are
\* mapped by one function chosen by the target's parity alone: h / 2 for an
\* even target, (h + 1) / 2 for an odd one; the re-fit uses the same x'
\* values, and no value is ever the other function's.
\* ------------------------------------------------------------------------
HalfOf(h) == RNorm(h, 2)

HalfOfNext(h) == RNorm(h + 1, 2)

\* the function the target's parity selects, and the other one
Selected(t, h) == IF SameParity(t, 0) THEN HalfOf(h) ELSE HalfOfNext(h)

Other(t, h) == IF SameParity(t, 0) THEN HalfOfNext(h) ELSE HalfOf(h)

C11_Transform ==
    (justSubmitted /\ locals.stage \in {"shown", "degenerate_input"}) =>
        /\ Len(locals.x_prime_values) = Len(locals.filtered_x)
        /\ \A i \in 1..Len(locals.filtered_x) :
              /\ locals.x_prime_values[i] = Selected(targetHouse[1], locals.filtered_x[i])
              /\ locals.x_prime_values[i] # Other(targetHouse[1], locals.filtered_x[i])
        /\ \A j \in 1..Len(locals.corrected_x_prime) :
              \E i \in 1..Len(locals.filtered_x) :
                  locals.corrected_x_prime[j] =
                      Selected(targetHouse[1], locals.filtered_x[i])
        /\ locals.stage = "shown" =>
              /\ locals.n_target = Selected(targetHouse[1], targetHouse[1])
              /\ locals.n_target # Other(targetHouse[1], targetHouse[1])
              /\ resultContainer.formulaText.name =
                     (IF SameParity(targetHouse[1], 0)
                      THEN "(HouseNo / 2)" ELSE "(HouseNo + 1) / 2")

C11_Witness ==
    /\ Classified
    /\ targetHouse = <<5>>
    /\ locals.filtered_x = <<3, 7>>
    /\ locals.x_prime_values = << R(2), R(4) >>
    /\ locals.n_target = R(3)

\* the odd transform on houses and a target below zero
C11_WitnessBelowZero ==
    /\ Classified
    /\ targetHouse = <<-3>>
    /\ locals.x_prime_values = << R(-2), R(0) >>
    /\ locals.n_target = R(-1)

\* ------------------------------------------------------------------------
\* C12: findOutlierByResidual, on any non-empty input and any slope and
\* intercept, returns the smallest index whose squared residual
\* (y_i - (slope x_i + intercept))^2 is the maximum over all samples, with
\* the house number stored at that index; it returns a valid index also when
\* every residual is 0.
\* ------------------------------------------------------------------------
\* the squared residual of sample i (1-based) of the call held in locals
SquaredResidualAt(i) ==
    RSq(RSub(R(locals.filtered_y[i]),
             RAdd(RMul(locals.main_regression.m, locals.x_prime_values[i]),
                  locals.main_regression.c)))

OutlierReturned == locals.stage = "outlier_returned"

\* 1-based position of the returned index
Returned == locals.outlier_info.outlier_index + 1

C12_FirstMaximum ==
    OutlierReturned =>
        /\ Returned \in 1..Len(locals.filtered_x)
        /\ \A j \in 1..Len(locals.filtered_x) :
              RGe(SquaredResidualAt(Returned), SquaredResidualAt(j))
        /\ \A j \in 1..(Returned - 1) :
              RLt(SquaredResidualAt(j), SquaredResidualAt(Returned))
        /\ locals.outlier_info.outlier_house = locals.filtered_x[Returned]

\* the maximum is attained twice, after a smaller residual: the first of the
\* two is returned
C12_Witness ==
    /\ OutlierReturned
    /\ Len(locals.filtered_x) = 3
    /\ RLt(SquaredResidualAt(1), SquaredResidualAt(2))
    /\ SquaredResidualAt(2) = SquaredResidualAt(3)
    /\ locals.filtered_x[2] # locals.filtered_x[3]
    /\ locals.outlier_info = [outlier_house |-> locals.filtered_x[2], outlier_index |-> 1]

\* every residual is 0
C12_WitnessAllZero ==
    /\ OutlierReturned
    /\ Len(locals.filtered_x) = 3
    /\ \A j \in 1..3 : RIsZero(SquaredResidualAt(j))
    /\ locals.outlier_info.outlier_index = 0

\* points (1,1), (2,2), (3,30) against the line through the first two
C12_WitnessExample ==
    /\ OutlierReturned
    /\ locals.x_prime_values = << R(1), R(2), R(3) >>
    /\ locals.filtered_y = <<1, 2, 30>>
    /\ locals.main_regression.m = R(1)
    /\ locals.main_regression.c = R(0)
    /\ locals.outlier_info = [outlier_house |-> 6, outlier_index |-> 2]

\* ------------------------------------------------------------------------
\* C13: when calculateRegression is invoked the house, transformed-x and
\* title arrays have one length >= 2 and entry i of each belongs to the same
\* sample; an outlier removal deletes exactly one sample, at one index in
\* the transformed-x and title arrays, so that the re-fit runs on n - 1 >= 2
\* paired points, and the house reported as excluded is the removed one's.
\* ------------------------------------------------------------------------
\* the rows the code's own parity test retains, as (house, title) pairs
KeptPairs ==
    SelectSeq(CompletePairs(rows),
              LAMBDA p : JsMod(p[1], 2) = JsMod(targetHouse[1], 2))

FitInvoked == justSubmitted /\ locals.stage \in {"shown", "degenerate_input"}

OutlierRemoved == FitInvoked /\ locals.outlier_info.outlier_index >= 0

\* arr without its entry at 1-based position k
Without(arr, k) == SubSeq(arr, 1, k - 1) \o SubSeq(arr, k + 1, Len(arr))

C13_Pairing ==
    /\ FitInvoked =>
          /\ Len(locals.filtered_x) >= 2
          /\ Len(locals.x_prime_values) = Len(locals.filtered_x)
          /\ Len(locals.filtered_y) = Len(locals.filtered_x)
          /\ RetainedPairs = KeptPairs
          /\ \A i \in 1..Len(locals.filtered_x) :
                locals.x_prime_values[i]
                    = Selected(targetHouse[1], locals.filtered_x[i])
    /\ OutlierRemoved =>
          /\ locals.outlier_info.outlier_index + 1 \in 1..Len(locals.filtered_x)
          /\ locals.corrected_x_prime =
                 Without(locals.x_prime_values, locals.outlier_info.outlier_index + 1)
          /\ locals.corrected_y =
                 Without(locals.filtered_y, locals.outlier_info.outlier_index + 1)
          /\ Len(locals.corrected_x_prime) = Len(locals.filtered_x) - 1
          /\ Len(locals.corrected_y) = Len(locals.filtered_x) - 1
          /\ Len(locals.corrected_y) >= 2
          /\ locals.outlier_info.outlier_house
                 = locals.filtered_x[locals.outlier_info.outlier_index + 1]
          /\ locals.analysis_level = "info" =>
                /\ locals.analysis_message.excluded
                       = << locals.filtered_x[locals.outlier_info.outlier_index + 1] >>
                /\ resultContainer.analysisText.excluded
                       = << locals.filtered_x[locals.outlier_info.outlier_index + 1] >>
    /\ (FitInvoked /\ ~OutlierRemoved) =>
          /\ locals.corrected_x_prime = <<>>
          /\ locals.corrected_y = <<>>
          /\ locals.analysis_message.excluded = <<>>

\* four retained samples, the third removed
C13_Witness ==
    /\ OutlierRemoved
    /\ locals.filtered_x = <<2, 4, 6, 8>>
    /\ locals.outlier_info = [outlier_house |-> 6, outlier_index |-> 2]
    /\ locals.corrected_x_prime = << R(1), R(2), R(4) >>
    /\ locals.corrected_y = <<100, 102, 100>>

\* a removal reported to the user, from a form with a row that was not
\* retained
C13_WitnessReported ==
    /\ OutlierRemoved
    /\ Len(rows) > Len(locals.filtered_x)
    /\ locals.analysis_level = "info"
    /\ resultContainer.analysisText.excluded = <<4>>

\* ------------------------------------------------------------------------
\* C14: with exactly 2 retained samples of different transformed x the
\* fitted line passes through both points, R2 is 1 and the outcome is High;
\* the Low outcome asking for more data is never produced.
\* ------------------------------------------------------------------------
TwoRetained == justSubmitted /\ Len(locals.filtered_x) = 2

\* the fitted line's value at sample i
FittedAt(i) ==
    RAdd(RMul(locals.main_regression.m, locals.x_prime_values[i]),
         locals.main_regression.c)

C14_TwoSamples ==
    /\ TwoRetained =>
          IF locals.filtered_x[1] = locals.filtered_x[2]
          THEN locals.stage = "degenerate_input"
          ELSE /\ locals.stage = "shown"
               /\ locals.x_prime_values[1] # locals.x_prime_values[2]
               /\ \A i \in 1..2 : FittedAt(i) = R(locals.filtered_y[i])
               /\ locals.main_regression.r2 = R(1)
               /\ locals.final_regression = locals.main_regression
               /\ locals.analysis_level = "success"
               /\ locals.outlier_info = NoOutlier
               /\ resultContainer.classes = {"success"}
               /\ resultContainer.analysisLevel.text = "High Confidence"
    /\ locals.analysis_message.kind # "more_data_needed"
    /\ resultContainer.analysisText.kind # "more_data_needed"

C14_Witness ==
    /\ TwoRetained
    /\ locals.stage = "shown"
    /\ locals.filtered_y[1] # locals.filtered_y[2]
    /\ locals.main_regression.m[2] # 1
    /\ locals.main_regression.r2 = R(1)
    /\ resultContainer.classes = {"success"}

====
